---- MODULE Spec2Model ----
(***************************************************************************)
(* Model of GroverAlgorithm (src/grover_algorithm.py): the oracle builder, *)
(* the diffusion builder, the iteration calculator and the circuit         *)
(* assembler, together with the ideal execution of an assembled circuit    *)
(* as the tests run it (src/tests/test_grover_algorithm.py).               *)
(*                                                                         *)
(* Python values are records [t, v]: t is the Python type ("int" or        *)
(* "float"), v the numeric value.  The solutions argument is a record      *)
(* [shape, items]: shape is "list", "tuple" (iterable, not a list) or      *)
(* "none" (None: falsy and not iterable).                                  *)
(*                                                                         *)
(* Amplitudes are exact rationals: the state vector is [num, den] and the  *)
(* amplitude of basis index i is num[i+1] / (den * sqrt(N)).               *)
(***************************************************************************)
EXTENDS Integers, Sequences, FiniteSets, TLC

\* ---------------------------------------------------------------- bounds
MaxN == 4
MaxLen == 3

\* np.pi squared lies strictly between PiSqLoNum/PiSqLoDen and
\* PiSqHiNum/PiSqHiDen (9.8696 < 9.8696044... < 9.87).
PiSqLoNum == 12337
PiSqLoDen == 1250
PiSqHiNum == 987
PiSqHiDen == 100

\* ---------------------------------------------------------------- helpers
RECURSIVE Pow2(_)
Pow2(e) == IF e <= 0 THEN 1 ELSE 2 * Pow2(e - 1)

Max(a, b) == IF a >= b THEN a ELSE b

Abs(a) == IF a < 0 THEN -a ELSE a

RECURSIVE GCD(_, _)
GCD(a, b) == IF b = 0 THEN a ELSE GCD(b, a % b)

PyInt(v) == [t |-> "int", v |-> v]
PyFloat(v) == [t |-> "float", v |-> v]

\* isinstance(x, int)
IsInt(x) == x.t = "int"

\* ------------------------------------------------------- calculate_iterations
\* int(np.floor((np.pi / 4) * np.sqrt(N / M))): the largest integer k with
\* k <= (pi/4)*sqrt(N/M), i.e. 16*k*k*M <= pi^2*N.  No value 16*k*k*M/N with
\* N <= 2^(MaxN+1) lies between PiSqLo and pi^2, so the comparison is exact.
FloorQuarterPiSqrt(N, M) ==
    CHOOSE k \in 0..N :
        /\ 16 * k * k * M * PiSqLoDen <= PiSqLoNum * N
        /\ 16 * (k + 1) * (k + 1) * M * PiSqLoDen > PiSqLoNum * N

calculate_iterations_noclamp(N, M) ==
    IF M >= N THEN 1 ELSE FloorQuarterPiSqrt(N, M)

calculate_iterations_roundup(N, M) ==
    IF M >= N THEN 1 ELSE Max(1, FloorQuarterPiSqrt(N, M) + 1)

calculate_iterations(N, M) ==
    IF M >= N THEN 1 ELSE Max(1, FloorQuarterPiSqrt(N, M))

\* ------------------------------------------------------------ exceptions
NoError == [exc |-> "none", text |-> "", nums |-> <<>>]

ValueError(text, nums) == [exc |-> "ValueError", text |-> text, nums |-> nums]

RuntimeError(text) == [exc |-> "RuntimeError", text |-> text, nums |-> <<>>]

TypeError(text) == [exc |-> "TypeError", text |-> text, nums |-> <<>>]

QubitsError == ValueError("Number of qubits must be a positive integer", <<>>)

EmptyError == ValueError("Solutions must be provided as a non-empty list", <<>>)

\* f"All solutions must be integers in range [0, {size-1}]": the numbers the
\* message prints are 0 and size-1.
RangeError_size(size) ==
    ValueError("All solutions must be integers in range [0, {}]", <<0, size>>)

RangeError(size) ==
    ValueError("All solutions must be integers in range [0, {}]", <<0, size - 1>>)

\* ------------------------------------------------------------ validation
\* not isinstance(n, int) or n <= 0
BadQubits(n) == ~IsInt(n) \/ n.v <= 0

\* not isinstance(s, int) or s < 0 or s >= size
OutOfRange_off(s, size) == ~IsInt(s) \/ s.v < 0 \/ s.v > size

OutOfRange(s, size) == ~IsInt(s) \/ s.v < 0 \/ s.v >= size

\* any(... for s in items)
AnyOutOfRange(items, size) ==
    \E i \in 1..Len(items) : OutOfRange(items[i], size)

\* not s_list: None and empty containers are falsy
Falsy(s_list) == s_list.shape = "none" \/ Len(s_list.items) = 0

\* ------------------------------------------------------------ create_oracle
\* np.eye(size) with oracle[idx, idx] = -1 for idx in s_list: the diagonal,
\* entry i+1 of the sequence for basis index i.
OracleMatrix_identity(size, items) == [i \in 1..size |-> 1]

OracleMatrix(size, items) ==
    [i \in 1..size |->
        IF \E j \in 1..Len(items) : items[j].v = i - 1 THEN -1 ELSE 1]

\* embedOk: whether oracle_circuit.unitary(...) accepts the matrix.
create_oracle(n, s_list, embedOk) ==
    IF BadQubits(n)
    THEN [err |-> QubitsError, val |-> <<>>]
    ELSE IF Falsy(s_list) \/ s_list.shape # "list"
    THEN [err |-> EmptyError, val |-> <<>>]
    ELSE LET size == Pow2(n.v) IN
         IF AnyOutOfRange(s_list.items, size)
         THEN [err |-> RangeError(size), val |-> <<>>]
         ELSE IF ~embedOk
         THEN [err |-> RuntimeError("Failed to create oracle circuit"),
               val |-> <<>>]
         ELSE [err |-> NoError, val |-> OracleMatrix(size, s_list.items)]

\* ------------------------------------------------------------ circuits
\* An entry of QuantumCircuit.data: the operation's name, its qubits and its
\* classical bits.
Instr(name, qubits, clbits) ==
    [name |-> name, qubits |-> qubits, clbits |-> clbits]

\* qc.h(i) / qc.x(i) for i in range(n)
Layer(name, n) == [i \in 1..n |-> Instr(name, <<i - 1>>, <<>>)]

\* qc.mcx(list(range(n-1)), n-1): qubits are the controls 0..n-2 followed by
\* the target.
Mcx(n) == Instr("mcx", [i \in 1..n |-> i - 1], <<>>)

\* qc.measure(qn, c): qubit i into classical bit i
MeasureLayer_short(n) == [i \in 1..(n - 1) |-> Instr("measure", <<i - 1>>, <<i - 1>>)]

MeasureLayer(n) == [i \in 1..n |-> Instr("measure", <<i - 1>>, <<i - 1>>)]

\* for _ in range(k): qc.append(grover_operator, qn)
GroverLayer(n, k) == [j \in 1..k |-> Instr("Q", [i \in 1..n |-> i - 1], <<>>)]

\* ------------------------------------------------------------ create_diffusion
DiffusionGates_nouncompute(n) ==
    Layer("h", n) \o Layer("x", n)
        \o <<Instr("h", <<n - 1>>, <<>>), Mcx(n), Instr("h", <<n - 1>>, <<>>)>>
        \o Layer("x", n)

DiffusionGates(n) ==
    Layer("h", n) \o Layer("x", n)
        \o <<Instr("h", <<n - 1>>, <<>>), Mcx(n), Instr("h", <<n - 1>>, <<>>)>>
        \o Layer("x", n) \o Layer("h", n)

create_diffusion(n) ==
    IF BadQubits(n)
    THEN [err |-> QubitsError, val |-> <<>>]
    ELSE [err |-> NoError, val |-> DiffusionGates(n.v)]

\* ------------------------------------------------------------ create_circuit
EmptyCircuit == [data |-> <<>>, oracle |-> <<>>, k |-> 0]

\* The body of the try block: the exception it raises, or the circuit.
create_circuit_body(n, solutions, embedOk) ==
    IF BadQubits(n)
    THEN [err |-> QubitsError, val |-> EmptyCircuit]
    ELSE IF solutions.shape = "none"
    THEN [err |-> TypeError("object is not iterable"), val |-> EmptyCircuit]
    ELSE LET size == Pow2(n.v) IN
         IF AnyOutOfRange(solutions.items, size)
         THEN [err |-> RangeError(size), val |-> EmptyCircuit]
         ELSE LET o == create_oracle(n, solutions, embedOk) IN
              IF o.err.exc # "none"
              THEN [err |-> o.err, val |-> EmptyCircuit]
              ELSE LET k == calculate_iterations(Pow2(n.v), Len(solutions.items)) IN
                   [err |-> NoError,
                    val |-> [data |-> Layer("h", n.v) \o GroverLayer(n.v, k)
                                          \o MeasureLayer(n.v),
                             oracle |-> o.val,
                             k |-> k]]

\* except ValueError: raise e; except Exception: raise RuntimeError(...)
Reraise(e) ==
    IF e.exc \in {"none", "ValueError"} THEN e
    ELSE RuntimeError("Circuit creation failed")

create_circuit(n, solutions, embedOk) ==
    LET r == create_circuit_body(n, solutions, embedOk) IN
    [err |-> Reraise(r.err), val |-> r.val]

\* ------------------------------------------------------------ ideal execution
\* The state vector of the n qubits: basis index i has amplitude
\* num[i+1] / (den * sqrt(N)), N = Len(num), kept in lowest terms.
RECURSIVE SumTo(_, _)
SumTo(f, m) == IF m = 0 THEN 0 ELSE f[m] + SumTo(f, m - 1)

RECURSIVE GCDTo(_, _)
GCDTo(f, m) == IF m = 0 THEN 0 ELSE GCD(Abs(f[m]), GCDTo(f, m - 1))

\* qc.h(qn) on |0...0>: the uniform superposition
Uniform(N) == [num |-> [i \in 1..N |-> 1], den |-> 1]

\* the oracle block of Q: the diagonal matrix applied to the state vector
PhaseFlip_none(diag, a) == a

PhaseFlip(diag, a) ==
    [num |-> [i \in 1..Len(a.num) |-> diag[i] * a.num[i]], den |-> a.den]

\* the diffusion block of Q: every amplitude x becomes 2*mean - x
Reflect_none(a) == a

Reflect(a) ==
    LET N == Len(a.num)
        S == SumTo(a.num, N)
        raw == [i \in 1..N |-> 2 * S - N * a.num[i]]
        d == N * a.den
        g == GCD(GCDTo(raw, N), d)
    IN  [num |-> [i \in 1..N |-> raw[i] \div g], den |-> d \div g]

\* one application of the Grover operator Q built from the oracle
GroverOperator(diag, a) == Reflect(PhaseFlip(diag, a))

\* bit q of the basis index: the value of qubit q
Bit(idx, q) == (idx \div Pow2(q)) % 2

\* the bitstring a shot reports for basis index idx: classical bit n-1 first,
\* classical bit 0 last
Outcome(idx, nq) == [j \in 1..nq |-> Bit(idx, nq - j)]

\* the ideal distribution: outcome idx has probability p / (N * den * den)
Distribution(a, nq) ==
    [i \in 1..Len(a.num) |->
        [bits |-> Outcome(i - 1, nq), p |-> a.num[i] * a.num[i]]]

\* format(s, f'0{n}b'): binary digits, most significant first, zero-padded
RECURSIVE Bin(_)
Bin(s) == IF s < 2 THEN <<s>> ELSE Append(Bin(s \div 2), s % 2)

Format(s, nq) ==
    LET b == Bin(s) IN
    IF Len(b) >= nq THEN b ELSE [i \in 1..(nq - Len(b)) |-> 0] \o b

\* ------------------------------------------------------------ inputs
SolutionInts ==
    {-1, 0, 1, 2, 3, 5, 7} \cup {Pow2(i) : i \in 1..MaxN}
        \cup {Pow2(i) - 1 : i \in 1..MaxN}

QubitArgs == {PyInt(v) : v \in -1..MaxN} \cup {PyFloat(2)}

ElemArgs == {PyInt(v) : v \in SolutionInts} \cup {PyFloat(1)}

ItemSeqs == UNION {[1..l -> ElemArgs] : l \in 0..MaxLen}

NoneArg == [shape |-> "none", items |-> <<>>]

SolutionArgs ==
    {[shape |-> sh, items |-> s] : sh \in {"list", "tuple"}, s \in ItemSeqs}
        \cup {NoneArg}

\* ------------------------------------------------------------ state
VARIABLES pc, fn, n, solutions, Narg, Marg, err, iterations, oracle,
          diffusion, qc, ip, amp, counts

vars == <<pc, fn, n, solutions, Narg, Marg, err, iterations, oracle,
          diffusion, qc, ip, amp, counts>>

NoAmp == [num |-> <<>>, den |-> 1]

Init ==
    /\ pc = "idle"
    /\ fn = ""
    /\ n = PyInt(0)
    /\ solutions = NoneArg
    /\ Narg = 0
    /\ Marg = 0
    /\ err = NoError
    /\ iterations = 0
    /\ oracle = <<>>
    /\ diffusion = <<>>
    /\ qc = EmptyCircuit
    /\ ip = 0
    /\ amp = NoAmp
    /\ counts = <<>>

CallCalculateIterations ==
    /\ pc = "idle"
    /\ \E e \in 1..MaxN, M \in 1..(Pow2(MaxN) + 1) :
        /\ Narg' = Pow2(e)
        /\ Marg' = M
        /\ iterations' = calculate_iterations(Pow2(e), M)
    /\ pc' = "returned"
    /\ fn' = "calculate_iterations"
    /\ UNCHANGED <<n, solutions, err, oracle, diffusion, qc, ip, amp, counts>>

CallCreateOracle ==
    /\ pc = "idle"
    /\ \E a \in QubitArgs, s \in SolutionArgs, embedOk \in BOOLEAN :
        LET r == create_oracle(a, s, embedOk) IN
        /\ n' = a
        /\ solutions' = s
        /\ err' = r.err
        /\ oracle' = r.val
    /\ pc' = "returned"
    /\ fn' = "create_oracle"
    /\ UNCHANGED <<Narg, Marg, iterations, diffusion, qc, ip, amp, counts>>

CallCreateDiffusion ==
    /\ pc = "idle"
    /\ \E a \in QubitArgs :
        LET r == create_diffusion(a) IN
        /\ n' = a
        /\ err' = r.err
        /\ diffusion' = r.val
    /\ pc' = "returned"
    /\ fn' = "create_diffusion"
    /\ UNCHANGED <<solutions, Narg, Marg, iterations, oracle, qc, ip, amp, counts>>

CallCreateCircuit ==
    /\ pc = "idle"
    /\ \E a \in QubitArgs, s \in SolutionArgs, embedOk \in BOOLEAN :
        LET r == create_circuit(a, s, embedOk) IN
        /\ n' = a
        /\ solutions' = s
        /\ err' = r.err
        /\ qc' = r.val
    /\ pc' = "returned"
    /\ fn' = "create_circuit"
    /\ UNCHANGED <<Narg, Marg, iterations, oracle, diffusion, ip, amp, counts>>

\* execute(circuit, simulator): the leading Hadamard on every qubit
ExecuteHadamards ==
    /\ pc = "returned"
    /\ fn = "create_circuit"
    /\ err.exc = "none"
    /\ \A i \in 1..n.v : qc.data[i].name = "h"
    /\ amp' = Uniform(Pow2(n.v))
    /\ ip' = n.v + 1
    /\ pc' = "running"
    /\ UNCHANGED <<fn, n, solutions, Narg, Marg, err, iterations, oracle,
                   diffusion, qc, counts>>

\* the next instruction is a Grover operator
ExecuteGrover ==
    /\ pc = "running"
    /\ ip <= Len(qc.data)
    /\ qc.data[ip].name = "Q"
    /\ amp' = GroverOperator(qc.oracle, amp)
    /\ ip' = ip + 1
    /\ UNCHANGED <<pc, fn, n, solutions, Narg, Marg, err, iterations, oracle,
                   diffusion, qc, counts>>

\* the remaining instructions are the measurements
ExecuteMeasure ==
    /\ pc = "running"
    /\ ip <= Len(qc.data)
    /\ \A i \in ip..Len(qc.data) : qc.data[i].name = "measure"
    /\ counts' = Distribution(amp, n.v)
    /\ ip' = Len(qc.data) + 1
    /\ pc' = "measured"
    /\ UNCHANGED <<fn, n, solutions, Narg, Marg, err, iterations, oracle,
                   diffusion, qc, amp>>

\* the caller drops the result; the object holds no state between calls
Return ==
    /\ pc \in {"returned", "measured"}
    /\ pc' = "idle"
    /\ fn' = ""
    /\ n' = PyInt(0)
    /\ solutions' = NoneArg
    /\ Narg' = 0
    /\ Marg' = 0
    /\ err' = NoError
    /\ iterations' = 0
    /\ oracle' = <<>>
    /\ diffusion' = <<>>
    /\ qc' = EmptyCircuit
    /\ ip' = 0
    /\ amp' = NoAmp
    /\ counts' = <<>>

Next ==
    \/ CallCalculateIterations
    \/ CallCreateOracle
    \/ CallCreateDiffusion
    \/ CallCreateCircuit
    \/ ExecuteHadamards
    \/ ExecuteGrover
    \/ ExecuteMeasure
    \/ Return

Spec == Init /\ [][Next]_vars

\* ================================================================ claims
Called(f) == pc = "returned" /\ fn = f

\* C1: calculate_iterations(N, M) with N = 2^n and M >= 1 returns 1 when
\* M >= N, and otherwise max(1, floor((pi/4)*sqrt(N/M))): the result r is at
\* least 1, r = 1 or 16*r*r*M <= pi^2*N, and pi^2*N < 16*(r+1)*(r+1)*M.
C1_IterationsFloorClamped ==
    Called("calculate_iterations") =>
        /\ iterations >= 1
        /\ Marg >= Narg => iterations = 1
        /\ Marg < Narg =>
            /\ \/ iterations = 1
               \/ 16 * iterations * iterations * Marg * PiSqLoDen
                      <= PiSqLoNum * Narg
            /\ PiSqHiNum * Narg
                   < 16 * (iterations + 1) * (iterations + 1) * Marg * PiSqHiDen

C1_Witness ==
    /\ Called("calculate_iterations")
    /\ Marg < Narg
    /\ iterations >= 2

\* C2: create_oracle(n, s_list) raises ValueError and returns no circuit when
\* n is not a positive integer, s_list is empty, or an element is < 0 or
\* >= 2^n; it raises no ValueError when n >= 1 and s_list is a non-empty list
\* of integers all in [0, 2^n - 1].
C2_Rejected ==
    \/ ~IsInt(n)
    \/ n.v <= 0
    \/ Len(solutions.items) = 0
    \/ \E i \in 1..Len(solutions.items) :
          /\ IsInt(solutions.items[i])
          /\ \/ solutions.items[i].v < 0
             \/ solutions.items[i].v >= Pow2(n.v)

C2_Accepted ==
    /\ IsInt(n)
    /\ n.v >= 1
    /\ solutions.shape = "list"
    /\ Len(solutions.items) >= 1
    /\ \A i \in 1..Len(solutions.items) :
          /\ IsInt(solutions.items[i])
          /\ solutions.items[i].v >= 0
          /\ solutions.items[i].v <= Pow2(n.v) - 1

C2_OracleValidation ==
    Called("create_oracle") =>
        /\ C2_Rejected => (err.exc = "ValueError" /\ oracle = <<>>)
        /\ C2_Accepted => err.exc # "ValueError"

C2_Witness ==
    /\ Called("create_oracle")
    /\ n = PyInt(2)
    /\ solutions.shape = "list"
    /\ Len(solutions.items) = 2
    /\ solutions.items[1] = PyInt(3)
    /\ solutions.items[2] = PyInt(4)
    /\ err.exc = "ValueError"

\* C3: in create_circuit every input that violates a validation rule (n not
\* a positive integer; solutions empty, not a list or not iterable; an index
\* outside [0, 2^n - 1]) fails with ValueError, never with RuntimeError, and
\* a RuntimeError is raised only for inputs that pass every validation rule.
C3_Invalid ==
    \/ ~IsInt(n)
    \/ n.v <= 0
    \/ solutions.shape # "list"
    \/ Len(solutions.items) = 0
    \/ \E i \in 1..Len(solutions.items) :
          \/ ~IsInt(solutions.items[i])
          \/ solutions.items[i].v < 0
          \/ solutions.items[i].v > Pow2(n.v) - 1

C3_ValidationNeverWrapped ==
    Called("create_circuit") =>
        /\ C3_Invalid => err.exc = "ValueError"
        /\ err.exc = "RuntimeError" => ~C3_Invalid

\* C4: the circuit create_circuit returns is n Hadamards (one per qubit), then
\* k = calculate_iterations(2^n, len(solutions)) >= 1 operations named Q, then
\* n measurements (qubit i into classical bit i): 2n + k operations.
C4_CircuitStructure ==
    (Called("create_circuit") /\ err.exc = "none") =>
        LET nq == n.v
            k == calculate_iterations(Pow2(nq), Len(solutions.items))
            d == qc.data
        IN  /\ k >= 1
            /\ Len(d) = 2 * nq + k
            /\ \A i \in 1..nq :
                  /\ d[i].name = "h"
                  /\ d[i].qubits = <<i - 1>>
                  /\ d[i].clbits = <<>>
            /\ \A j \in (nq + 1)..(nq + k) : d[j].name = "Q"
            /\ \A i \in 1..nq :
                  /\ d[nq + k + i].name = "measure"
                  /\ d[nq + k + i].qubits = <<i - 1>>
                  /\ d[nq + k + i].clbits = <<i - 1>>

C4_Witness ==
    /\ Called("create_circuit")
    /\ err.exc = "none"
    /\ n.v = 3
    /\ Len(qc.data) = 8

Items == solutions.items

NoDuplicates == \A i, j \in 1..Len(Items) : Items[i] = Items[j] => i = j

Marked(idx) == \E j \in 1..Len(Items) : Items[j].v = idx

\* the sum of counts[i].p over the outcomes whose bitstring is in S
RECURSIVE MassTo(_, _)
MassTo(S, m) ==
    IF m = 0 THEN 0
    ELSE (IF counts[m].bits \in S THEN counts[m].p ELSE 0) + MassTo(S, m - 1)

\* the common denominator of counts[i].p
Total == Len(counts) * amp.den * amp.den

SingleMostFrequent ==
    \E t \in 1..Len(counts) :
        /\ counts[t].bits = Format(Items[1].v, n.v)
        /\ \A i \in 1..Len(counts) : i # t => counts[i].p < counts[t].p

\* C6 as stated: for every n >= 1 and solutions = [s], the bitstring that is
\* s in binary zero-padded to n bits is strictly more probable than every
\* other bitstring in the ideal distribution of the built circuit.
C6_SingleSolutionMostFrequent ==
    (pc = "measured" /\ Len(Items) = 1) => SingleMostFrequent

\* C6 amended: the same for every n >= 2 (at n = 1 the two outcomes tie).
C6_SingleSolutionMostFrequentFrom2 ==
    (pc = "measured" /\ Len(Items) = 1 /\ n.v >= 2) => SingleMostFrequent

C6_Witness ==
    /\ pc = "measured"
    /\ n = PyInt(3)
    /\ Items = <<PyInt(5)>>
    /\ counts[6].bits = <<1, 0, 1>>
    /\ counts[6].p > counts[1].p

\* C7: the ideal combined probability of the marked bitstrings exceeds the
\* tests' thresholds: n=2, [1]: more than 0.5 on '01'; n=4, [1,3,7]: more
\* than 0.7 on {'0001','0011','0111'}; n=3, [2,5]: more than 0.7 on
\* {'010','101'}.
C7_TestThresholds ==
    pc = "measured" =>
        /\ (n = PyInt(2) /\ Items = <<PyInt(1)>>) =>
              10 * MassTo({<<0, 1>>}, Len(counts)) > 5 * Total
        /\ (n = PyInt(4) /\ Items = <<PyInt(1), PyInt(3), PyInt(7)>>) =>
              10 * MassTo({<<0, 0, 0, 1>>, <<0, 0, 1, 1>>, <<0, 1, 1, 1>>},
                          Len(counts)) > 7 * Total
        /\ (n = PyInt(3) /\ Items = <<PyInt(2), PyInt(5)>>) =>
              10 * MassTo({<<0, 1, 0>>, <<1, 0, 1>>}, Len(counts)) > 7 * Total

C7_Witness ==
    /\ pc = "measured"
    /\ n = PyInt(4)
    /\ Items = <<PyInt(1), PyInt(3), PyInt(7)>>
    /\ MassTo({<<0, 0, 0, 1>>, <<0, 0, 1, 1>>, <<0, 1, 1, 1>>}, Len(counts)) > 0

\* an out-of-range index was rejected: the qubit count is valid, an integer
\* element is outside [0, 2^n - 1] and the range error was raised
RangeRejected ==
    /\ pc = "returned"
    /\ fn \in {"create_oracle", "create_circuit"}
    /\ err.exc = "ValueError"
    /\ err.text = "All solutions must be integers in range [0, {}]"
    /\ \E i \in 1..Len(Items) :
          IsInt(Items[i]) /\ (Items[i].v < 0 \/ Items[i].v >= Pow2(n.v))

NamesRange ==
    /\ \E j \in 1..Len(err.nums) : err.nums[j] = 0
    /\ \E j \in 1..Len(err.nums) : err.nums[j] = Pow2(n.v) - 1

NamesOffendingValue ==
    \E i \in 1..Len(Items) :
        /\ IsInt(Items[i])
        /\ Items[i].v < 0 \/ Items[i].v >= Pow2(n.v)
        /\ \E j \in 1..Len(err.nums) : err.nums[j] = Items[i].v

RECURSIVE Dedup(_)
Dedup(items) ==
    IF items = <<>> THEN <<>>
    ELSE LET front == SubSeq(items, 1, Len(items) - 1)
             last == items[Len(items)]
         IN  IF \E i \in 1..Len(front) : front[i] = last
             THEN Dedup(front)
             ELSE Append(Dedup(front), last)

\* C9: create_circuit(n, L) builds the same circuit (same oracle, same number
\* k of Grover iterations) as create_circuit(n, D), D being L without
\* duplicates.
C9_DuplicatesRedundant ==
    (Called("create_circuit") /\ err.exc = "none") =>
        qc = create_circuit(n, [shape |-> "list", items |-> Dedup(Items)],
                            TRUE).val

\* M distinct marked states, M < N and floor((pi/4)*sqrt(N/M)) >= 1
C10_Case ==
    /\ pc \in {"running", "measured"}
    /\ NoDuplicates
    /\ Len(Items) < Pow2(n.v)
    /\ 16 * Len(Items) * PiSqLoDen <= PiSqLoNum * Pow2(n.v)

UnmarkedNonNegative ==
    \A idx \in 0..(Pow2(n.v) - 1) : ~Marked(idx) => amp.num[idx + 1] >= 0

\* C10 as stated: after the k = calculate_iterations(N, M) rounds the state
\* has not rotated past the peak: the unmarked amplitude is still >= 0.
C10_NoOvershoot ==
    (C10_Case /\ ip > n.v + qc.k) => UnmarkedNonNegative

\* C10 amended: the first k - 1 rounds do not rotate past the peak: the
\* unmarked amplitude is >= 0 whenever a round is still to be applied.
C10_NoOvershootBeforeLastRound ==
    (C10_Case /\ ip <= n.v + qc.k) => UnmarkedNonNegative

C10_Witness ==
    /\ C10_Case
    /\ qc.k >= 2
    /\ ip = n.v + qc.k
    /\ UnmarkedNonNegative

\* the bitstrings of the marked indices: format(s, f'0{n}b') for s in solutions
SolutionStates == {Format(Items[j].v, n.v) : j \in 1..Len(Items)}

\* the marked outcomes are strictly more probable than under the uniform
\* superposition: mass / (N * den^2) > M / N
MarkedAmplified ==
    MassTo(SolutionStates, Len(counts)) > Len(Items) * amp.den * amp.den

C11_Case ==
    /\ pc = "measured"
    /\ NoDuplicates
    /\ Len(Items) < Pow2(n.v)

\* C11 as stated: for every n >= 1 and M distinct solutions with M < 2^n, the
\* ideal combined probability of the marked indices after the k iterations is
\* strictly greater than M / 2^n.
C11_MarkedAmplified ==
    C11_Case => MarkedAmplified

\* C11 amended: the same when fewer than half of the states are marked,
\* 2 * M < 2^n.
C11_MarkedAmplifiedBelowHalf ==
    (C11_Case /\ 2 * Len(Items) < Pow2(n.v)) => MarkedAmplified

C11_Witness ==
    /\ C11_Case
    /\ n = PyInt(3)
    /\ Items = <<PyInt(0), PyInt(3), PyInt(7)>>
    /\ MarkedAmplified

====
